---- MODULE Spec2Model ----
(***************************************************************************)
(* Model of src/proto_uxst.c, the UNIX SOCK_STREAM protocol layer of       *)
(* haproxy: listener attach/bind/unbind/pause, the protocol-wide sweeps,   *)
(* and the outbound connect path.                                          *)
(*                                                                         *)
(* The kernel is modelled by what the calls of the file can observe: a     *)
(* descriptor table, the three directory entries bind works on for every   *)
(* path (live, <path>.<pid>.tmp, <path>.<pid>.bak) and the sockets they    *)
(* refer to.  A call whose result the code tests may fail; ENOENT and      *)
(* EBADF are only returned when the entry or descriptor is really absent.  *)
(* A call whose result the code ignores (the unlink()s and the close() of  *)
(* the unwind) has its normal effect.                                      *)
(***************************************************************************)
EXTENDS Integers, Sequences, FiniteSets, TLC

\* ------------------------------------------------------------------ bounds
NListeners == 2
MaxFd == 4
NConns == 1

Listeners == 1..NListeners
Fds == 0..(MaxFd - 1)
Conns == 1..NConns

\* global.maxsock: the last descriptor number lies above the ceiling
maxsock == MaxFd - 1

\* ------------------------------------------------------------- constants
LI_INIT == 1
LI_ASSIGNED == 2
LI_LISTEN == 4

\* sizeof(addr.sun_path) and MAXPATHLEN, and the process id printed by "%d"
SunPathSize == 108
MAXPATHLEN == 4096
pid == 4242

ERR_NONE == {}
ERR_RETRYABLE == {"RETRYABLE"}
ERR_FATAL == {"FATAL"}
ERR_ABORT == {"ABORT"}
ERR_ALERT == {"ALERT"}

MIN(a, b) == IF a < b THEN a ELSE b

\* ------------------------------------------------------------- addresses
\* "abs" is an abstract address (sun_path[0] = 0); the others are paths.
Addrs == {"abs", "p", "plong"}
PathAddrs == {"p", "plong"}

\* path[0] != 0
IsPath(a) == a \in PathAddrs

\* strlen(path)
PathLen(a) == CASE a = "p" -> 14
                [] a = "plong" -> 100
                [] OTHER -> 0

RECURSIVE Digits(_)
\* number of characters "%d" prints for a positive integer
Digits(n) == IF n < 10 THEN 1 ELSE 1 + Digits(n \div 10)

\* what snprintf(.., "%s.%d.tmp", path, pid) returns (".tmp" and ".bak" are 4 long)
SnprintfLen(a) == PathLen(a) + 1 + Digits(pid) + 4

\* --------------------------------------------------------------- kernel
NoFile == 0

ClosedFd == [open |-> FALSE, sock |-> 0, listening |-> FALSE,
             nonblock |-> FALSE, bound |-> "none"]

NoOwner == [kind |-> "none", id |-> 0]
NoEntry == [owner |-> NoOwner, exported |-> FALSE, linger_risk |-> FALSE, hints |-> {}]

EmptyDir == [live |-> NoFile, tmp |-> NoFile, bak |-> NoFile]

\* the sockets some directory entry or some open descriptor refers to
Referenced(fsx, fdsx) ==
    {fsx[a][n] : a \in PathAddrs, n \in {"live", "tmp", "bak"}}
        \cup {fdsx[d].sock : d \in Fds}

MaxSockId == 3 * Cardinality(PathAddrs) + MaxFd + 1

\* identity of a socket that socket() creates: one no entry or descriptor names
NewSock(fsx, fdsx) ==
    CHOOSE n \in 1..MaxSockId :
        /\ n \notin Referenced(fsx, fdsx)
        /\ \A m \in 1..(n - 1) : m \in Referenced(fsx, fdsx)

\* unlink(name): the entry is removed
Unlink(dir, n) == [dir EXCEPT ![n] = NoFile]

\* link(old, new) once it succeeds: a second name for the same socket
Link(dir, old, new) == [dir EXCEPT ![new] = dir[old]]

\* rename(old, new) once it succeeds; nothing happens when both names are
\* hard links to the same file
Rename(dir, old, new) ==
    IF dir[old] = dir[new] THEN dir
    ELSE [dir EXCEPT ![new] = dir[old], ![old] = NoFile]

\* close(fd): EBADF leaves the table alone
Close(fdsx, fd) ==
    IF fd \in Fds /\ fdsx[fd].open THEN [fdsx EXCEPT ![fd] = ClosedFd] ELSE fdsx

\* socket() returns the lowest free descriptor; the rest of the process may
\* hold every descriptor below the ceiling, and then it is the one above
SocketFds(fdsx) ==
    LET free == {d \in Fds : ~fdsx[d].open}
    IN  {d \in free : (\A e \in free : d <= e) \/ d = MaxFd - 1}

\* an abstract address is in use while an open socket is bound to it
AbstractInUse(fdsx, a) == \E d \in Fds : fdsx[d].open /\ fdsx[d].bound = a


\* ------------------------------------------------------- uxst_bind_listener
\* The function is a chain of steps, one per system call, in the order of
\* the source; a context holds its locals, the listener's fields and the
\* part of the process and kernel state it works on.  Every step gives the
\* set of contexts the call can continue in.

NoMsg == [msg |-> "", path |-> "", fd |-> -1]

\* snprintf(errmsg, errlen, "%s [%s]", msg, path) or "... [fd %d]": a buffer
\* of one byte only holds the terminating zero
Snprintf(errlen, m) == IF errlen > 1 THEN m ELSE NoMsg

Dir(c) == c.fs[c.addr]

SetDir(c, d) == [c EXCEPT !.fs = [c.fs EXCEPT ![c.addr] = d]]

Called(c, names) == [c EXCEPT !.calls = @ \cup names]

\* err |= bits | ERR_ALERT; msg = ...; goto label
Fail(c, step, bits, m, label) ==
    [c EXCEPT !.err = @ \cup bits \cup ERR_ALERT, !.msg = m,
              !.failed = step, !.pc = label]

Goto(c, label) == [c EXCEPT !.pc = label]

\* sock_find_compatible_fd(): the descriptor of an inherited socket bound to
\* the same address, taken off the transfer list (marked as taken), or -1
SockFindCompatibleFd(c) ==
    LET match == {x \in c.xfer : x.addr = c.addr /\ ~x.taken}
    IN  IF match = {} THEN {[c EXCEPT !.lfd = -1]}
        ELSE {[c EXCEPT !.lfd = x.fd,
                        !.xfer = (@ \ {x}) \cup {[x EXCEPT !.taken = TRUE]}]
                 : x \in match}

\* the entry without the test of the listener's state
B_entry_NoStateTest(c) ==
    LET c0 == [c EXCEPT !.errmsg = IF c.errlen # 0 THEN NoMsg ELSE @]
        found == IF c0.lfd = -1 THEN SockFindCompatibleFd(c0) ELSE {c0}
    IN  {[d EXCEPT !.fd = d.lfd, !.ext = (d.lfd >= 0),
                   !.pc = IF d.lfd >= 0 THEN "fd_ready" ELSE "names"]
            : d \in found}

\* lines 107-131
B_entry(c) ==
    LET c0 == [c EXCEPT !.errmsg = IF c.errlen # 0 THEN NoMsg ELSE @]
    IN  IF c0.lstate # LI_ASSIGNED
        THEN {Goto(c0, "ret")}
        ELSE LET found == IF c0.lfd = -1 THEN SockFindCompatibleFd(c0) ELSE {c0}
             IN  {[d EXCEPT !.fd = d.lfd, !.ext = (d.lfd >= 0),
                            !.pc = IF d.lfd >= 0 THEN "fd_ready" ELSE "names"]
                     : d \in found}

NameTooLong == "name too long for UNIX socket (limit usually 97)"

\* lines 133-146 (and 183-188 for an abstract address)
B_names(c) ==
    IF ~IsPath(c.addr) THEN {Goto(c, "socket")}
    ELSE LET maxpathlen == MIN(MAXPATHLEN, SunPathSize)
             ret == SnprintfLen(c.addr)
         IN  IF ret >= SunPathSize \/ ret >= maxpathlen
             THEN {Fail(c, "names", ERR_FATAL, NameTooLong, "err_return")}
             ELSE {Goto(c, "unlink_temp")}

UnlinkPrevious == "error when trying to unlink previous UNIX socket"

\* lines 149-153: unlink(tempname)
B_unlink_temp(c) ==
    LET c1 == Called(c, {"unlink"})
    IN  {Goto(SetDir(c1, Unlink(Dir(c1), "tmp")), "unlink_back"),
         Fail(c1, "unlink_temp", ERR_FATAL, UnlinkPrevious, "err_return")}

\* lines 155-159: unlink(backname)
B_unlink_back(c) ==
    LET c1 == Called(c, {"unlink"})
    IN  {Goto(SetDir(c1, Unlink(Dir(c1), "bak")), "link"),
         Fail(c1, "unlink_back", ERR_FATAL, UnlinkPrevious, "err_return")}

\* lines 161-166: link(path, backname); ENOENT (no live socket) is not an error
B_link(c) ==
    LET c1 == Called(c, {"link"})
        ok == IF Dir(c1).live = NoFile THEN c1
              ELSE SetDir(c1, Link(Dir(c1), "live", "bak"))
    IN  {Goto(ok, "socket"),
         Fail(c1, "link", ERR_FATAL,
              "error when trying to preserve previous UNIX socket", "err_return")}

\* lines 191-196: socket(PF_UNIX, SOCK_STREAM, 0)
B_socket(c) ==
    LET c1 == Called(c, {"socket"})
        s == NewSock(c1.fs, c1.fds)
    IN  {[c1 EXCEPT !.fd = d, !.sock = s, !.pc = "fd_ready",
                    !.fds = [@ EXCEPT ![d] = [ClosedFd EXCEPT !.open = TRUE, !.sock = s]]]
            : d \in SocketFds(c1.fds)}
        \cup {Fail([c1 EXCEPT !.fd = -1], "socket", ERR_FATAL,
                   "cannot create UNIX socket", "err_unlink_back")}

\* lines 198-203
B_fd_ready(c) ==
    IF c.fd >= maxsock
    THEN {Fail(c, "maxsock", ERR_FATAL,
               "socket(): not enough free sockets, raise -n argument", "err_unlink_temp")}
    ELSE {Goto(c, "fcntl")}

\* lines 205-209: fcntl(fd, F_SETFL, O_NONBLOCK)
B_fcntl(c) ==
    LET c1 == Called(c, {"fcntl"})
        bad == Fail(c1, "fcntl", ERR_FATAL,
                    "cannot make UNIX socket non-blocking", "err_unlink_temp")
    IN  IF ~c1.fds[c1.fd].open THEN {bad}
        ELSE {[c1 EXCEPT !.fds = [@ EXCEPT ![c1.fd].nonblock = TRUE], !.pc = "bind"], bad}

\* every failure of bind() is taken for "address in use"
BindErrno_AlwaysRetry(c, errno) ==
    Fail(c, IF errno = "EADDRINUSE" THEN "bind_inuse" ELSE "bind_other",
         ERR_RETRYABLE, "cannot listen to socket", "err_unlink_temp")

\* lines 213-221: the classification of a failed bind()
BindErrno(c, errno) ==
    IF errno = "EADDRINUSE"
    THEN Fail(c, "bind_inuse", ERR_RETRYABLE, "cannot listen to socket", "err_unlink_temp")
    ELSE Fail(c, "bind_other", ERR_FATAL, "cannot bind UNIX socket", "err_unlink_temp")

\* lines 211-223: bind() creates <tempname> on the file system
B_bind(c) ==
    IF c.ext THEN {Goto(c, "chown")}
    ELSE LET c1 == Called(c, {"bind"})
             inuse == IF IsPath(c1.addr) THEN Dir(c1).tmp # NoFile
                      ELSE AbstractInUse(c1.fds, c1.addr)
             bound == [c1 EXCEPT !.fds = [@ EXCEPT ![c1.fd].bound = c1.addr]]
             ok == IF IsPath(c1.addr)
                   THEN SetDir(bound, [Dir(bound) EXCEPT !.tmp = c1.sock])
                   ELSE bound
         IN  (IF inuse THEN {} ELSE {Goto(ok, "chown")})
             \cup {BindErrno(c1, "EADDRINUSE"), BindErrno(c1, "EACCES")}

\* the socket is switched in before it listens
B_chown_ThenRename(c) == {Goto(c, "rename")}

\* lines 230-237: chown() when uid or gid is set, then chmod() when mode is set
B_chown(c) ==
    IF c.ext \/ ~IsPath(c.addr) THEN {Goto(c, "listen")}
    ELSE LET bad(step) == Fail(Called(c, {step}), step, ERR_FATAL,
                               "cannot change UNIX socket ownership", "err_unlink_temp")
             done == Called(c, (IF c.ux.owner THEN {"chown"} ELSE {})
                                  \cup (IF c.ux.mode THEN {"chmod"} ELSE {}))
         IN  {Goto(done, "listen")}
             \cup (IF c.ux.owner THEN {bad("chown")} ELSE {})
             \cup (IF c.ux.mode
                   THEN {Fail(done, "chmod", ERR_FATAL,
                              "cannot change UNIX socket ownership", "err_unlink_temp")}
                   ELSE {})

\* lines 239-249: getsockopt(SO_ACCEPTCONN), then listen() unless an external
\* process already did it
B_listen(c) ==
    LET c1 == Called(c, {"getsockopt"})
        readys == {c1.fds[c1.fd].listening, FALSE}
        after(ready) ==
            IF c1.ext /\ ready THEN {Goto(c1, "rename")}
            ELSE LET c2 == Called(c1, {"listen"})
                 IN  {[c2 EXCEPT !.fds = [@ EXCEPT ![c2.fd].listening = TRUE],
                                 !.pc = "rename"],
                      Fail(c2, "listen", ERR_FATAL,
                           "cannot listen to UNIX socket", "err_unlink_temp")}
    IN  UNION {after(r) : r \in readys}

\* lines 251-259: the point of no return, rename(tempname, path)
B_rename(c) ==
    IF c.ext \/ ~IsPath(c.addr) THEN {Goto(c, "cleanup")}
    ELSE LET c1 == Called(c, {"rename"})
         IN  (IF Dir(c1).tmp = NoFile THEN {}
              ELSE {Goto(SetDir(c1, Rename(Dir(c1), "tmp", "live")), "cleanup")})
             \cup {Fail(c1, "rename", ERR_FATAL,
                        "cannot switch final and temporary UNIX sockets", "err_rename")}

\* the backup is left behind
B_cleanup_KeepBackup(c) == {Goto(c, "insert")}

\* lines 261-263: unlink(backname)
B_cleanup(c) ==
    IF c.ext \/ ~IsPath(c.addr) THEN {Goto(c, "insert")}
    ELSE {Goto(SetDir(Called(c, {"unlink"}), Unlink(Dir(c), "bak")), "insert")}

\* fd_insert(fd, owner, ...), and the exported flag set after it
FdInsert(owner, exported) == [NoEntry EXCEPT !.owner = owner, !.exported = exported]

\* the descriptor is stored and registered, the state is not updated
B_insert_NoState(c) ==
    {[c EXCEPT !.lfd = c.fd,
               !.fdtab = [@ EXCEPT ![c.fd] = FdInsert([kind |-> "listener", id |-> c.li],
                                                      ~c.inh)],
               !.pc = "ret"]}

\* lines 265-276: the socket is now listening
B_insert(c) ==
    {[c EXCEPT !.lfd = c.fd, !.lstate = LI_LISTEN,
               !.fdtab = [@ EXCEPT ![c.fd] = FdInsert([kind |-> "listener", id |-> c.li],
                                                      ~c.inh)],
               !.pc = "ret"]}

\* the recovery without its rename: the live path is simply removed
B_err_rename_NoRestore(c) == {Goto(Called(c, {"rename"}), "err_unlink_path")}

\* lines 278-280: rename(backname, path); ENOENT when there is no backup
B_err_rename(c) ==
    LET c1 == Called(c, {"rename"})
        other == Goto([c1 EXCEPT !.recfail = TRUE], "err_unlink_temp")
    IN  IF Dir(c1).bak = NoFile
        THEN {Goto([c1 EXCEPT !.recfail = TRUE], "err_unlink_path"), other}
        ELSE {Goto(SetDir(c1, Rename(Dir(c1), "bak", "live")), "err_unlink_temp"), other}

\* line 281: unlink(path)
B_err_unlink_path(c) ==
    {Goto(SetDir(Called(c, {"unlink"}), Unlink(Dir(c), "live")), "err_unlink_temp")}

\* the unwind removes the temp name whatever the listener is
B_err_unlink_temp_Unguarded(c) ==
    LET c1 == IF IsPath(c.addr)
              THEN SetDir(Called(c, {"unlink"}), Unlink(Dir(c), "tmp"))
              ELSE Called(c, {"unlink"})
    IN  {[Called(c1, {"close"}) EXCEPT !.fds = Close(c1.fds, c1.fd),
                                       !.pc = "err_unlink_back"]}

\* lines 282-285: unlink(tempname) for a path this call works on, close(fd)
B_err_unlink_temp(c) ==
    LET c1 == IF ~c.ext /\ IsPath(c.addr)
              THEN SetDir(Called(c, {"unlink"}), Unlink(Dir(c), "tmp"))
              ELSE c
    IN  {[Called(c1, {"close"}) EXCEPT !.fds = Close(c1.fds, c1.fd),
                                       !.pc = "err_unlink_back"]}

\* the unwind forgets the backup
B_err_unlink_back_Skip(c) == {Goto(c, "err_return")}

\* lines 286-288: unlink(backname)
B_err_unlink_back(c) ==
    IF ~c.ext /\ IsPath(c.addr)
    THEN {Goto(SetDir(Called(c, {"unlink"}), Unlink(Dir(c), "bak")), "err_return")}
    ELSE {Goto(c, "err_return")}

\* lines 289-296
B_err_return(c) ==
    LET m == IF ~c.ext THEN [msg |-> c.msg, path |-> c.addr, fd |-> -1]
             ELSE [msg |-> c.msg, path |-> "", fd |-> c.fd]
    IN  {[c EXCEPT !.errmsg = IF c.msg # "" /\ c.errlen # 0
                              THEN Snprintf(c.errlen, m) ELSE @,
                   !.pc = "ret"]}

BindSteps(c) ==
    CASE c.pc = "entry" -> B_entry(c)
      [] c.pc = "names" -> B_names(c)
      [] c.pc = "unlink_temp" -> B_unlink_temp(c)
      [] c.pc = "unlink_back" -> B_unlink_back(c)
      [] c.pc = "link" -> B_link(c)
      [] c.pc = "socket" -> B_socket(c)
      [] c.pc = "fd_ready" -> B_fd_ready(c)
      [] c.pc = "fcntl" -> B_fcntl(c)
      [] c.pc = "bind" -> B_bind(c)
      [] c.pc = "chown" -> B_chown(c)
      [] c.pc = "listen" -> B_listen(c)
      [] c.pc = "rename" -> B_rename(c)
      [] c.pc = "cleanup" -> B_cleanup(c)
      [] c.pc = "insert" -> B_insert(c)
      [] c.pc = "err_rename" -> B_err_rename(c)
      [] c.pc = "err_unlink_path" -> B_err_unlink_path(c)
      [] c.pc = "err_unlink_temp" -> B_err_unlink_temp(c)
      [] c.pc = "err_unlink_back" -> B_err_unlink_back(c)
      [] c.pc = "err_return" -> B_err_return(c)
      [] OTHER -> {}

RECURSIVE BindRun(_)
\* the contexts in which the call started in c can return
BindRun(c) ==
    IF c.pc = "ret" THEN {c} ELSE UNION {BindRun(d) : d \in BindSteps(c)}


\* ------------------------------------------------------------------ state
VARIABLES
    lis,           \* the listeners: state, fd, address, options, bind_conf
    listeners,     \* proto_unix.listeners, in list order
    nb_listeners,  \* proto_unix.nb_listeners
    fs,            \* the directory entries of every path
    fds,           \* the descriptors of the process
    fdtab,         \* fdtab[]: owner and exported flag of the registered fds
    xfer,          \* sockets handed over by the previous process
    last,          \* the last listener call, what it returned and the
                   \* message buffer it left to its caller
    conn,          \* the connections
    clast,         \* the last connect call and what it returned
    run            \* the binds in progress, when bind is followed call by call

vars == <<lis, listeners, nb_listeners, fs, fds, fdtab, xfer, last, conn, clast, run>>

\* sizes of the message buffer a caller passes: none, or a usual one
ErrLens == {0, 100}

\* what the buffer holds when the caller passes it: nothing it can rely on
Garbage == [msg |-> "?", path |-> "", fd |-> -1]

NoCall == [op |-> "none", li |-> 0, ret |-> ERR_NONE, rc |-> 0, failed |-> "none",
           ext |-> FALSE, fd |-> -1, sock |-> 0, preLive |-> NoFile,
           preState |-> 0, preFd |-> -1, calls |-> {}, recfail |-> FALSE,
           errlen |-> 0, errmsg |-> Garbage, sweep |-> <<>>, unbound |-> {}]

\* the context of bind(l) in the current state
BindCtx(w, l, errlen, buf) ==
    [pc |-> "entry", li |-> l, addr |-> w.lis[l].addr, ux |-> w.lis[l].ux,
     inh |-> w.lis[l].inh, errlen |-> errlen, fd |-> -1, ext |-> FALSE,
     err |-> ERR_NONE, msg |-> "", failed |-> "none", calls |-> {}, sock |-> 0,
     recfail |-> FALSE, lstate |-> w.lis[l].state, lfd |-> w.lis[l].fd,
     fs |-> w.fs, fds |-> w.fds, fdtab |-> w.fdtab, xfer |-> w.xfer,
     errmsg |-> buf]

\* the state a returned bind leaves
BindResult(w, c) ==
    [lis |-> [w.lis EXCEPT ![c.li].state = c.lstate, ![c.li].fd = c.lfd],
     fs |-> c.fs, fds |-> c.fds, fdtab |-> c.fdtab, xfer |-> c.xfer]

World == [lis |-> lis, fs |-> fs, fds |-> fds, fdtab |-> fdtab, xfer |-> xfer]

SetWorld(w) ==
    /\ lis' = w.lis
    /\ fs' = w.fs
    /\ fds' = w.fds
    /\ fdtab' = w.fdtab
    /\ xfer' = w.xfer

\* what is remembered of a returned bind
BindCall(w, l, errlen, c) ==
    [NoCall EXCEPT !.op = "bind", !.li = l, !.ret = c.err, !.failed = c.failed,
                   !.ext = c.ext, !.fd = c.fd, !.sock = c.sock,
                   !.preLive = IF IsPath(w.lis[l].addr)
                               THEN w.fs[w.lis[l].addr].live ELSE NoFile,
                   !.preState = w.lis[l].state, !.preFd = w.lis[l].fd,
                   !.calls = c.calls, !.recfail = c.recfail,
                   !.errlen = errlen, !.errmsg = c.errmsg]

\* uxst_bind_listener(listener, errmsg, errlen)
Bind(l, errlen) ==
    /\ \E c \in BindRun(BindCtx(World, l, errlen, Garbage)) :
          /\ SetWorld(BindResult(World, c))
          /\ last' = BindCall(World, l, errlen, c)
    /\ UNCHANGED <<listeners, nb_listeners, conn, clast, run>>

\* unbind_listener() / do_unbind_listener(l, 1): the descriptor is deleted
\* from the fd table and closed, the listener is back in LI_ASSIGNED
DoUnbindListener(w, l) ==
    IF w.lis[l].state > LI_ASSIGNED
    THEN [w EXCEPT !.fds = Close(w.fds, w.lis[l].fd),
                   !.fdtab = IF w.lis[l].fd \in Fds
                             THEN [@ EXCEPT ![w.lis[l].fd] = NoEntry] ELSE @,
                   !.lis = [@ EXCEPT ![l].fd = -1, ![l].state = LI_ASSIGNED]]
    ELSE w

\* uxst_unbind_listener(listener)
UxstUnbindListener(w, l) ==
    IF w.lis[l].state > LI_ASSIGNED THEN DoUnbindListener(w, l) ELSE w

\* the listeners of ls that unbind takes down
Bound(w, ls) == {l \in ls : w.lis[l].state > LI_ASSIGNED}

Unbind(l) ==
    /\ SetWorld(UxstUnbindListener(World, l))
    /\ last' = [NoCall EXCEPT !.op = "unbind", !.li = l, !.ret = ERR_NONE,
                              !.unbound = Bound(World, {l})]
    /\ UNCHANGED <<listeners, nb_listeners, conn, clast, run>>

\* an attach without the test of the listener's state
Attach_NoStateTest(l) ==
    /\ lis' = [lis EXCEPT ![l].state = LI_ASSIGNED]
    /\ listeners' = Append(listeners, l)
    /\ nb_listeners' = nb_listeners + 1
    /\ last' = [NoCall EXCEPT !.op = "attach", !.li = l]
    /\ UNCHANGED <<fs, fds, fdtab, xfer, conn, clast, run>>

\* uxst_add_listener(listener, port)
Attach(l) ==
    /\ IF lis[l].state # LI_INIT
       THEN UNCHANGED <<lis, listeners, nb_listeners>>
       ELSE /\ lis' = [lis EXCEPT ![l].state = LI_ASSIGNED]
            /\ listeners' = Append(listeners, l)
            /\ nb_listeners' = nb_listeners + 1
    /\ last' = [NoCall EXCEPT !.op = "attach", !.li = l]
    /\ UNCHANGED <<fs, fds, fdtab, xfer, conn, clast, run>>

\* what is remembered of a returned pause
PauseCall(l, rc) ==
    [NoCall EXCEPT !.op = "pause", !.li = l, !.rc = rc,
                   !.preState = lis[l].state, !.preFd = lis[l].fd]

\* a pause that unbinds whatever the address is
Pause_AlwaysUnbind(l) ==
    /\ SetWorld(DoUnbindListener(World, l))
    /\ last' = PauseCall(l, 0)
    /\ UNCHANGED <<listeners, nb_listeners, conn, clast, run>>

\* uxst_pause_listener(l)
Pause(l) ==
    /\ IF IsPath(lis[l].addr)
       THEN /\ UNCHANGED <<lis, fs, fds, fdtab, xfer>>
            /\ last' = PauseCall(l, 1)
       ELSE /\ SetWorld(DoUnbindListener(World, l))
            /\ last' = PauseCall(l, 0)
    /\ UNCHANGED <<listeners, nb_listeners, conn, clast, run>>

RECURSIVE BindAllRun(_, _, _, _, _, _)
\* a sweep that stops at the first listener whose bind fails
BindAllRun_StopOnFailure(w, i, err, errlen, buf, sweep) ==
    IF i > Len(listeners) \/ (err \cap (ERR_ABORT \cup ERR_FATAL \cup ERR_RETRYABLE)) # {}
    THEN {[w |-> w, err |-> err, errmsg |-> buf, sweep |-> sweep]}
    ELSE UNION {BindAllRun(BindResult(w, c), i + 1, err \cup c.err, errlen, c.errmsg,
                           Append(sweep, [li |-> listeners[i], err |-> c.err]))
                   : c \in BindRun(BindCtx(w, listeners[i], errlen, buf))}

\* uxst_bind_listeners() from the i-th entry of the list on: the states it
\* can return in, with the accumulated err, the message buffer and the
\* listeners it went through
BindAllRun(w, i, err, errlen, buf, sweep) ==
    IF i > Len(listeners) \/ (err \cap ERR_ABORT) # {}
    THEN {[w |-> w, err |-> err, errmsg |-> buf, sweep |-> sweep]}
    ELSE UNION {BindAllRun(BindResult(w, c), i + 1, err \cup c.err, errlen, c.errmsg,
                           Append(sweep, [li |-> listeners[i], err |-> c.err]))
                   : c \in BindRun(BindCtx(w, listeners[i], errlen, buf))}

\* uxst_bind_listeners(proto, errmsg, errlen)
BindAll(errlen) ==
    /\ \E r \in BindAllRun(World, 1, ERR_NONE, errlen, Garbage, <<>>) :
          /\ SetWorld(r.w)
          /\ last' = [NoCall EXCEPT !.op = "bind_all", !.ret = r.err, !.errlen = errlen,
                                    !.errmsg = r.errmsg, !.sweep = r.sweep]
    /\ UNCHANGED <<listeners, nb_listeners, conn, clast, run>>

RECURSIVE UnbindAllRun(_, _)
UnbindAllRun(w, i) ==
    IF i > Len(listeners) THEN w
    ELSE UnbindAllRun(UxstUnbindListener(w, listeners[i]), i + 1)

\* a sweep that stops after the first listener of the list
UnbindAll_HeadOnly ==
    /\ SetWorld(IF listeners = <<>> THEN World
                ELSE UxstUnbindListener(World, Head(listeners)))
    /\ last' = [NoCall EXCEPT !.op = "unbind_all", !.ret = ERR_NONE,
                              !.unbound = Bound(World, {listeners[i] : i \in 1..Len(listeners)})]
    /\ UNCHANGED <<listeners, nb_listeners, conn, clast, run>>

\* uxst_unbind_listeners(proto)
UnbindAll ==
    /\ SetWorld(UnbindAllRun(World, 1))
    /\ last' = [NoCall EXCEPT !.op = "unbind_all", !.ret = ERR_NONE,
                              !.unbound = Bound(World, {listeners[i] : i \in 1..Len(listeners)})]
    /\ UNCHANGED <<listeners, nb_listeners, conn, clast, run>>

\* ------------------------------------------------------------------- Init
\* bind_conf->ux: whether uid/gid and mode are set; the odd listeners are
\* configured with an owner and a mode, the even ones with neither
UxOf(l) == IF l % 2 = 1 THEN [owner |-> TRUE, mode |-> TRUE]
           ELSE [owner |-> FALSE, mode |-> FALSE]

\* What the process starts with.  A listener comes out of configuration
\* parsing in LI_INIT with fd -1, unless the parent passed it a descriptor
\* ("fd@"): the first listener then holds fd 0, open, on a socket that is
\* listening already, and carries LI_O_INHERITED.  Or the previous process
\* hands over a socket for "p" that sock_find_compatible_fd() will find: a
\* listening one on the descriptor above the ceiling, or one below it that
\* is bound and does not listen yet.
Handovers == {"none", "preset", "xfer_high", "xfer_low"}

OldSock == MaxSockId + 1
StaleSock == MaxSockId + 2
ExtSock == MaxSockId + 3

XferOf(h) ==
    CASE h = "xfer_high" -> {[fd |-> MaxFd - 1, addr |-> "p", taken |-> FALSE]}
      [] h = "xfer_low" -> {[fd |-> MaxFd - 2, addr |-> "p", taken |-> FALSE]}
      [] OTHER -> {}

InitListeners(addrOf, h) ==
    [l \in Listeners |->
        [state |-> LI_INIT,
         fd |-> IF h = "preset" /\ l = 1 THEN 0 ELSE -1,
         addr |-> addrOf[l],
         inh |-> (h = "preset" /\ l = 1),
         ux |-> UxOf(l)]]

InitFds(h) ==
    [d \in Fds |->
        IF (h = "preset" /\ d = 0) \/ (\E x \in XferOf(h) : x.fd = d)
        THEN [ClosedFd EXCEPT !.open = TRUE, !.sock = ExtSock,
                              !.listening = (h # "xfer_low"), !.bound = "ext"]
        ELSE ClosedFd]

\* the directory of a path: a live socket of a previous run or none, with the
\* temp and backup entries a crashed attempt may have left beside it
InitDirs == {EmptyDir,
             [EmptyDir EXCEPT !.live = OldSock],
             [live |-> OldSock, tmp |-> StaleSock, bak |-> StaleSock]}

\* the first listener has any address, the others a bindable one
InitAddrs == {f \in [Listeners -> Addrs] : \A l \in Listeners : l > 1 => f[l] # "plong"}

InitListen ==
    \E addrOf \in InitAddrs, h \in Handovers, d \in InitDirs :
        /\ lis = InitListeners(addrOf, h)
        /\ listeners = <<>>
        /\ nb_listeners = 0
        /\ fs = [a \in PathAddrs |-> IF a = "p" THEN d ELSE [EmptyDir EXCEPT !.live = d.live]]
        /\ fds = InitFds(h)
        /\ fdtab = [f \in Fds |-> NoEntry]
        /\ xfer = XferOf(h)
        /\ last = NoCall

\* ------------------------------------------------------ uxst_connect_server
\* A connection slot is free, or holds the connection its caller set up and
\* passed to connect: the kind of target, the flags (CO_FL_WAIT_L4_CONN may
\* be set already), send_proxy_ofs, and no descriptor or error code yet.
NoConn == [used |-> FALSE, target |-> "OBJ_TYPE_NONE", flags |-> {},
           err_code |-> "CO_ER_NONE", fd |-> -1, send_proxy_ofs |-> 0]

FreshConns ==
    {[NoConn EXCEPT !.used = TRUE, !.target = t, !.flags = f, !.send_proxy_ofs = o]
        : t \in {"OBJ_TYPE_PROXY", "OBJ_TYPE_SERVER", "OBJ_TYPE_NONE"},
          f \in {{}, {"CO_FL_WAIT_L4_CONN"}}, o \in {0, 1}}

NoConnCall == [op |-> "none", c |-> 0, ret |-> "none", failed |-> "none",
               errno |-> "none", created |-> {}, logs |-> <<>>, alerts |-> 0,
               stderr |-> 0, master |-> FALSE]

\* the errno values socket() and connect() fail with
SocketErrnos == {"ENFILE", "EMFILE", "ENOBUFS", "ENOMEM", "EAFNOSUPPORT",
                 "EPROTONOSUPPORT", "EACCES"}
ConnectErrnos == {"EINPROGRESS", "EALREADY", "EISCONN", "EAGAIN", "EADDRINUSE",
                  "EADDRNOTAVAIL", "ETIMEDOUT", "ECONNREFUSED", "EACCES"}

\* send_log(be, level, ...): a log of that level naming the backend
SendLog(k, level) == [k EXCEPT !.logs = Append(@, [level |-> level, be |-> "be"])]

HaAlert(k) == [k EXCEPT !.alerts = @ + 1]

Qfprintf(k) == [k EXCEPT !.stderr = @ + 1]

\* conn->err_code = code; conn->flags |= CO_FL_ERROR; return ret
ConnFail(k, step, code, ret) ==
    [k EXCEPT !.conn.err_code = code, !.conn.flags = @ \cup {"CO_FL_ERROR"},
              !.failed = step, !.ret = ret, !.pc = "ret"]

\* the descriptor is left open
ConnClose_Leak(k) == k

\* close(fd) on a failure path
ConnClose(k) == [k EXCEPT !.fds = Close(k.fds, k.fd)]

\* lines 373-385: only a proxy or a server is a valid target
K_target(k) ==
    IF k.conn.target \in {"OBJ_TYPE_PROXY", "OBJ_TYPE_SERVER"}
    THEN {[k EXCEPT !.pc = "socket"]}
    ELSE {[k EXCEPT !.conn.flags = @ \cup {"CO_FL_ERROR"}, !.failed = "target",
                    !.ret = "SF_ERR_INTERNAL", !.pc = "ret"]}

\* the two descriptor limits are mixed up
SocketErrno_LimitsSwapped(k, errno) ==
    LET k1 == Qfprintf([k EXCEPT !.errno = errno, !.conn.fd = -1])
        k2 == CASE errno = "EMFILE" ->
                     SendLog([k1 EXCEPT !.conn.err_code = "CO_ER_SYS_FDLIM"], "LOG_EMERG")
                [] errno = "ENFILE" ->
                     SendLog([k1 EXCEPT !.conn.err_code = "CO_ER_PROC_FDLIM"], "LOG_EMERG")
                [] errno \in {"ENOBUFS", "ENOMEM"} ->
                     SendLog([k1 EXCEPT !.conn.err_code = "CO_ER_SYS_MEMLIM"], "LOG_EMERG")
                [] errno \in {"EAFNOSUPPORT", "EPROTONOSUPPORT"} ->
                     [k1 EXCEPT !.conn.err_code = "CO_ER_NOPROTO"]
                [] OTHER -> [k1 EXCEPT !.conn.err_code = "CO_ER_SOCK_ERR"]
    IN  [k2 EXCEPT !.conn.flags = @ \cup {"CO_FL_ERROR"}, !.failed = "socket",
                   !.ret = "SF_ERR_RESOURCE", !.pc = "ret"]

\* lines 388-416: the error code and the log for a failed socket()
SocketErrno(k, errno) ==
    LET k1 == Qfprintf([k EXCEPT !.errno = errno, !.conn.fd = -1])
        k2 == CASE errno = "ENFILE" ->
                     SendLog([k1 EXCEPT !.conn.err_code = "CO_ER_SYS_FDLIM"], "LOG_EMERG")
                [] errno = "EMFILE" ->
                     SendLog([k1 EXCEPT !.conn.err_code = "CO_ER_PROC_FDLIM"], "LOG_EMERG")
                [] errno \in {"ENOBUFS", "ENOMEM"} ->
                     SendLog([k1 EXCEPT !.conn.err_code = "CO_ER_SYS_MEMLIM"], "LOG_EMERG")
                [] errno \in {"EAFNOSUPPORT", "EPROTONOSUPPORT"} ->
                     [k1 EXCEPT !.conn.err_code = "CO_ER_NOPROTO"]
                [] OTHER -> [k1 EXCEPT !.conn.err_code = "CO_ER_SOCK_ERR"]
    IN  [k2 EXCEPT !.conn.flags = @ \cup {"CO_FL_ERROR"}, !.failed = "socket",
                   !.ret = "SF_ERR_RESOURCE", !.pc = "ret"]

\* lines 387-417: fd = conn->handle.fd = socket(PF_UNIX, SOCK_STREAM, 0)
K_socket(k) ==
    {[k EXCEPT !.fd = d, !.conn.fd = d, !.created = @ \cup {d}, !.pc = "maxsock",
               !.fds = [@ EXCEPT ![d] = [ClosedFd EXCEPT !.open = TRUE,
                                                          !.sock = NewSock(k.fs, k.fds)]]]
        : d \in SocketFds(k.fds)}
    \cup {SocketErrno(k, e) : e \in SocketErrnos}

\* lines 419-428
K_maxsock(k) ==
    IF k.fd >= maxsock
    THEN {ConnFail(ConnClose(HaAlert(k)), "maxsock", "CO_ER_CONF_FDLIM", "SF_ERR_PRXCOND")}
    ELSE {[k EXCEPT !.pc = "nonblock"]}

\* lines 430-436: fcntl(fd, F_SETFL, O_NONBLOCK)
K_nonblock(k) ==
    {[k EXCEPT !.fds = [@ EXCEPT ![k.fd].nonblock = TRUE], !.pc = "cloexec"],
     ConnFail(ConnClose(Qfprintf(k)), "nonblock", "CO_ER_SOCK_ERR", "SF_ERR_INTERNAL")}

\* lines 438-444: fcntl(fd, F_SETFD, FD_CLOEXEC) in the master process
K_cloexec(k) ==
    {[k EXCEPT !.pc = "connect"]}
    \cup (IF k.master
          THEN {ConnFail(ConnClose(HaAlert(k)), "cloexec", "CO_ER_SOCK_ERR",
                         "SF_ERR_INTERNAL")}
          ELSE {})

\* lines 457-491: what a failed connect() leads to
ConnectErrno(k, errno) ==
    LET k1 == [k EXCEPT !.errno = errno]
    IN  CASE errno \in {"EINPROGRESS", "EALREADY"} ->
               [k1 EXCEPT !.conn.flags = @ \cup {"CO_FL_WAIT_L4_CONN"}, !.pc = "setup"]
          [] errno = "EISCONN" ->
               [k1 EXCEPT !.conn.flags = @ \ {"CO_FL_WAIT_L4_CONN"}, !.pc = "setup"]
          [] errno \in {"EAGAIN", "EADDRNOTAVAIL"} ->
               ConnFail(SendLog(ConnClose(Qfprintf(k1)), "LOG_ERR"), "connect",
                        "CO_ER_FREE_PORTS", "SF_ERR_RESOURCE")
          [] errno = "EADDRINUSE" ->
               ConnFail(SendLog(ConnClose(Qfprintf(k1)), "LOG_ERR"), "connect",
                        "CO_ER_ADDR_INUSE", "SF_ERR_RESOURCE")
          [] errno = "ETIMEDOUT" ->
               ConnFail(ConnClose(k1), "connect", "CO_ER_SOCK_ERR", "SF_ERR_SRVTO")
          [] OTHER ->
               ConnFail(ConnClose(k1), "connect", "CO_ER_SOCK_ERR", "SF_ERR_SRVCL")

\* lines 446-498: the buffer sizes are set, then connect()
K_connect(k) ==
    {[k EXCEPT !.conn.flags = @ \ {"CO_FL_WAIT_L4_CONN"}, !.pc = "setup"]}
    \cup {ConnectErrno(k, e) : e \in ConnectErrnos}

\* conn_ctrl_init(): the descriptor is registered for the connection
ConnCtrlInit(k) ==
    [k EXCEPT !.fdtab = [@ EXCEPT ![k.fd] = FdInsert([kind |-> "conn", id |-> k.c], FALSE)],
              !.conn.flags = @ \cup {"CO_FL_CTRL_READY"}]

\* no hint is set
PrimeHints_Nothing(k) == k

\* fd_want_send(fd); fd_cant_send(fd); fd_cant_recv(fd)
PrimeHints(k) ==
    [k EXCEPT !.fdtab = [@ EXCEPT ![k.fd].hints =
                                      {"want_send", "cant_send", "cant_recv"}]]

\* lines 500-513
K_setup(k) ==
    LET k1 == [k EXCEPT !.conn.flags =
                   @ \cup {"CO_FL_ADDR_TO_SET"}
                     \cup (IF k.conn.send_proxy_ofs # 0 THEN {"CO_FL_SEND_PROXY"} ELSE {})]
        k2 == ConnCtrlInit(k1)
        k3 == [k2 EXCEPT !.fdtab = [@ EXCEPT ![k.fd].linger_risk = FALSE]]
        k4 == IF "CO_FL_WAIT_L4_CONN" \in k3.conn.flags THEN PrimeHints(k3) ELSE k3
    IN  {[k4 EXCEPT !.pc = "xprt"]}

\* conn_full_close(): the transport and the control layer are closed, the
\* descriptor is deleted from the fd table and closed
ConnFullClose(k) ==
    [k EXCEPT !.fds = Close(k.fds, k.conn.fd),
              !.fdtab = IF k.conn.fd \in Fds THEN [@ EXCEPT ![k.conn.fd] = NoEntry] ELSE @,
              !.conn.flags = @ \ {"CO_FL_CTRL_READY"}]

\* lines 515-521: conn_xprt_init()
K_xprt(k) ==
    {[k EXCEPT !.ret = "SF_ERR_NONE", !.pc = "ret"],
     [ConnFullClose(k) EXCEPT !.conn.flags = @ \cup {"CO_FL_ERROR"}, !.failed = "xprt",
                              !.ret = "SF_ERR_RESOURCE", !.pc = "ret"]}

ConnectSteps(k) ==
    CASE k.pc = "target" -> K_target(k)
      [] k.pc = "socket" -> K_socket(k)
      [] k.pc = "maxsock" -> K_maxsock(k)
      [] k.pc = "nonblock" -> K_nonblock(k)
      [] k.pc = "cloexec" -> K_cloexec(k)
      [] k.pc = "connect" -> K_connect(k)
      [] k.pc = "setup" -> K_setup(k)
      [] k.pc = "xprt" -> K_xprt(k)
      [] OTHER -> {}

RECURSIVE ConnectRun(_)
\* the contexts in which the call started in k can return
ConnectRun(k) ==
    IF k.pc = "ret" THEN {k} ELSE UNION {ConnectRun(d) : d \in ConnectSteps(k)}

ConnectCtx(c, fresh, master) ==
    [pc |-> "target", c |-> c, conn |-> fresh, fd |-> -1, master |-> master,
     ret |-> "none", failed |-> "none", errno |-> "none", created |-> {},
     logs |-> <<>>, alerts |-> 0, stderr |-> 0,
     fs |-> fs, fds |-> fds, fdtab |-> fdtab]

\* uxst_connect_server(conn, flags) on a connection its caller just set up;
\* master tells whether the process is the master
Connect(c, fresh, master) ==
    /\ ~conn[c].used
    /\ \E k \in ConnectRun(ConnectCtx(c, fresh, master)) :
          /\ conn' = [conn EXCEPT ![c] = k.conn]
          /\ fds' = k.fds
          /\ fdtab' = k.fdtab
          /\ clast' = [NoConnCall EXCEPT !.op = "connect", !.c = c, !.ret = k.ret,
                                         !.failed = k.failed, !.errno = k.errno,
                                         !.created = k.created, !.logs = k.logs,
                                         !.alerts = k.alerts, !.stderr = k.stderr,
                                         !.master = master]
    /\ UNCHANGED <<lis, listeners, nb_listeners, fs, xfer, last, run>>

\* the caller is done with the connection: it is torn down and its slot freed
Release(c) ==
    /\ conn[c].used
    /\ LET own == conn[c].fd \in Fds /\ fdtab[conn[c].fd].owner = [kind |-> "conn", id |-> c]
       IN  /\ fds' = IF own THEN Close(fds, conn[c].fd) ELSE fds
           /\ fdtab' = IF own THEN [fdtab EXCEPT ![conn[c].fd] = NoEntry] ELSE fdtab
    /\ conn' = [conn EXCEPT ![c] = NoConn]
    /\ clast' = [NoConnCall EXCEPT !.op = "release", !.c = c]
    /\ UNCHANGED <<lis, listeners, nb_listeners, fs, xfer, last, run>>

\* ------------------------------------------------ bind, call by call
\* The same function followed one step of BindSteps at a time, so that what
\* other processes see between two of its system calls is a state.  Process 1
\* is this process.  Process 2 is another process, with another pid, that
\* binds a listener of its own to the same path: it shares the file system,
\* but the names "<path>.<pid>.tmp" and "<path>.<pid>.bak" it builds (lines
\* 134 and 141) are not those of process 1, so the entries under its names
\* are kept apart from fs, in run[2].  The descriptors of both processes are
\* kept in the one table fds, as disjoint handles.
Procs == {1, 2}

RacePath == "p"

NoRun == [p \in Procs |->
             [phase |-> "idle", ctx |-> [pc |-> "idle"], tmp |-> NoFile, bak |-> NoFile,
              preLive |-> NoFile, preState |-> 0, preFd |-> -1]]

\* the temp and backup names of process p are those whose entries fs holds
OwnNames(p) == p = 1

\* the directory entries of every path under the names process p uses
FsView(p) ==
    IF OwnNames(p) THEN fs
    ELSE [fs EXCEPT ![RacePath] = [live |-> fs[RacePath].live,
                                   tmp |-> run[p].tmp, bak |-> run[p].bak]]

\* the world bind works on in process p; the listener of process 2 is one of
\* its own, attached and not bound yet
WorldOf(p) ==
    IF p = 1 THEN World
    ELSE [lis |-> [l \in Listeners |->
                      [state |-> LI_ASSIGNED, fd |-> -1, addr |-> RacePath,
                       inh |-> FALSE, ux |-> UxOf(l)]],
          fs |-> FsView(p), fds |-> fds, fdtab |-> fdtab, xfer |-> {}]

\* the context of the bind in progress in process p, on the current state
Refresh(p) ==
    [run[p].ctx EXCEPT !.fs = FsView(p), !.fds = fds, !.fdtab = fdtab,
                       !.xfer = WorldOf(p).xfer]

\* the locals of a context, without its copy of the world
Locals(c) == [c EXCEPT !.fs = <<>>, !.fds = <<>>, !.fdtab = <<>>, !.xfer = {}]

\* what the step that led process p to context d leaves
Commit(p, d) ==
    /\ fs' = IF OwnNames(p) THEN d.fs
             ELSE [fs EXCEPT ![RacePath].live = d.fs[RacePath].live]
    /\ fds' = d.fds
    /\ fdtab' = IF p = 1 THEN d.fdtab ELSE fdtab
    /\ xfer' = IF p = 1 THEN d.xfer ELSE xfer
    /\ lis' = IF p = 1 THEN [lis EXCEPT ![d.li].state = d.lstate, ![d.li].fd = d.lfd]
              ELSE lis
    /\ run' = [run EXCEPT ![p].ctx = Locals(d),
                          ![p].tmp = IF OwnNames(p) THEN @ ELSE d.fs[RacePath].tmp,
                          ![p].bak = IF OwnNames(p) THEN @ ELSE d.fs[RacePath].bak]

\* process p calls uxst_bind_listener(listener, errmsg, errlen)
EnterBind(p, l, errlen) ==
    /\ run[p].phase # "busy"
    /\ run' = [run EXCEPT ![p] =
                   [phase |-> "busy",
                    ctx |-> Locals(BindCtx(WorldOf(p), l, errlen, Garbage)),
                    tmp |-> @.tmp, bak |-> @.bak,
                    preLive |-> IF IsPath(WorldOf(p).lis[l].addr)
                                THEN fs[WorldOf(p).lis[l].addr].live ELSE NoFile,
                    preState |-> WorldOf(p).lis[l].state,
                    preFd |-> WorldOf(p).lis[l].fd]]
    /\ last' = IF p = 1 THEN [NoCall EXCEPT !.op = "bind_enter", !.li = l] ELSE last
    /\ UNCHANGED <<lis, listeners, nb_listeners, fs, fds, fdtab, xfer, conn, clast>>

\* the next step of the bind in progress in process p
StepBind(p) ==
    /\ run[p].phase = "busy"
    /\ run[p].ctx.pc # "ret"
    /\ \E d \in BindSteps(Refresh(p)) : Commit(p, d)
    /\ UNCHANGED <<listeners, nb_listeners, last, conn, clast>>

\* the bind in progress in process p returns
ReturnBind(p) ==
    /\ run[p].phase = "busy"
    /\ run[p].ctx.pc = "ret"
    /\ run' = [run EXCEPT ![p].phase = "done"]
    /\ last' = IF p # 1 THEN last
               ELSE LET c == run[p].ctx
                    IN  [NoCall EXCEPT !.op = "bind", !.li = c.li, !.ret = c.err,
                                       !.failed = c.failed, !.ext = c.ext, !.fd = c.fd,
                                       !.sock = c.sock, !.preLive = run[p].preLive,
                                       !.preState = run[p].preState,
                                       !.preFd = run[p].preFd, !.calls = c.calls,
                                       !.recfail = c.recfail, !.errlen = c.errlen,
                                       !.errmsg = c.errmsg]
    /\ UNCHANGED <<lis, listeners, nb_listeners, fs, fds, fdtab, xfer, conn, clast>>

\* unbind, between two binds
IdleUnbind(l) == run[1].phase # "busy" /\ Unbind(l)

\* attach, between two binds
IdleAttach(l) == run[1].phase # "busy" /\ Attach(l)


Init ==
    /\ InitListen
    /\ conn = [c \in Conns |-> NoConn]
    /\ clast = NoConnCall
    /\ run = NoRun

\* the calls on one listener
Next ==
    \/ \E l \in Listeners : Attach(l)
    \/ \E l \in Listeners, n \in ErrLens : Bind(l, n)
    \/ \E l \in Listeners : Unbind(l)
    \/ \E l \in Listeners : Pause(l)

Spec == Init /\ [][Next]_vars

\* the calls of the protocol layer: listeners are bound by the sweep over the
\* list, which calls bind on every listener, and unbound one by one or by the
\* sweep
NextSweep ==
    \/ \E l \in Listeners : Attach(l)
    \/ \E l \in Listeners : Unbind(l)
    \/ \E l \in Listeners : Pause(l)
    \/ \E n \in ErrLens : BindAll(n)
    \/ UnbindAll

SpecSweep == Init /\ [][NextSweep]_vars

\* this process alone, its binds followed call by call
NextStep ==
    \/ \E l \in Listeners : IdleAttach(l)
    \/ \E l \in Listeners, n \in ErrLens : EnterBind(1, l, n)
    \/ StepBind(1)
    \/ ReturnBind(1)
    \/ \E l \in Listeners : IdleUnbind(l)

SpecStep == Init /\ [][NextStep]_vars

\* Two processes take over the same path at once.  Each has attached one
\* listener for the path and calls bind on it once; the path holds the
\* socket of the previous process, or nothing.
RaceDirs == {EmptyDir, [EmptyDir EXCEPT !.live = OldSock]}

InitRace ==
    \E d \in RaceDirs :
        /\ lis = [InitListeners([l \in Listeners |-> RacePath], "none")
                      EXCEPT ![1].state = LI_ASSIGNED]
        /\ listeners = <<1>>
        /\ nb_listeners = 1
        /\ fs = [a \in PathAddrs |-> IF a = RacePath THEN d ELSE EmptyDir]
        /\ fds = InitFds("none")
        /\ fdtab = [f \in Fds |-> NoEntry]
        /\ xfer = {}
        /\ last = NoCall
        /\ conn = [c \in Conns |-> NoConn]
        /\ clast = NoConnCall
        /\ run = NoRun

\* process p starts its bind
RaceEnter(p, errlen) == run[p].phase = "idle" /\ EnterBind(p, 1, errlen)

NextRace ==
    \/ \E p \in Procs, n \in ErrLens : RaceEnter(p, n)
    \/ \E p \in Procs : StepBind(p)
    \/ \E p \in Procs : ReturnBind(p)

SpecRace == InitRace /\ [][NextRace]_vars


\* the outbound side on its own: no listener is attached, nothing is on disk
InitConn ==
    /\ lis = InitListeners([l \in Listeners |-> "abs"], "none")
    /\ listeners = <<>>
    /\ nb_listeners = 0
    /\ fs = [a \in PathAddrs |-> EmptyDir]
    /\ fds = InitFds("none")
    /\ fdtab = [f \in Fds |-> NoEntry]
    /\ xfer = {}
    /\ last = NoCall
    /\ conn = [c \in Conns |-> NoConn]
    /\ clast = NoConnCall
    /\ run = NoRun

NextConn ==
    \/ \E c \in Conns, fresh \in FreshConns, master \in BOOLEAN : Connect(c, fresh, master)
    \/ \E c \in Conns : Release(c)

SpecConn == InitConn /\ [][NextConn]_vars


\* ------------------------------------------------------- claims about bind
LastAddr == lis[last.li].addr

\* the last call was a bind that went past the state test
BindRan == last.op = "bind" /\ last.preState = LI_ASSIGNED

\* ... of a path-backed listener that had no descriptor from outside
BindOfPath == BindRan /\ IsPath(LastAddr) /\ ~last.ext

BindFailed == last.ret \cap (ERR_FATAL \cup ERR_RETRYABLE) # {}

FdValid(l) == lis[l].fd \in Fds /\ fds[lis[l].fd].open

\* C1: a failed bind of a path-backed listener without external descriptor,
\* whose live path held a socket when bind started, returns with the live
\* path present and referring to that same socket.
C1_LivePathKept ==
    (BindOfPath /\ BindFailed /\ last.preLive # NoFile)
        => fs[LastAddr].live = last.preLive

C1_Witness ==
    /\ BindOfPath /\ last.failed = "rename"
    /\ last.preLive = OldSock /\ fs[LastAddr].live = OldSock


\* C2: after a successful bind of a path-backed listener without external
\* descriptor the live path names the socket this call created, that socket
\* listens, the listener is in LI_LISTEN with the descriptor registered, and
\* neither the temp nor the backup entry exists.
C2_SuccessfulBind ==
    (BindOfPath /\ ~BindFailed) =>
        /\ last.ret = ERR_NONE
        /\ last.sock # last.preLive
        /\ fs[LastAddr].live = last.sock
        /\ last.fd \in Fds
        /\ fds[last.fd].open /\ fds[last.fd].sock = last.sock
        /\ fds[last.fd].listening
        /\ lis[last.li].state = LI_LISTEN /\ lis[last.li].fd = last.fd
        /\ fdtab[last.fd].owner = [kind |-> "listener", id |-> last.li]
        /\ fs[LastAddr].tmp = NoFile /\ fs[LastAddr].bak = NoFile

C2_Witness ==
    /\ BindOfPath /\ ~BindFailed
    /\ last.preLive = OldSock /\ fs[LastAddr].live = last.sock

NoRemnant == fs[LastAddr].tmp = NoFile /\ fs[LastAddr].bak = NoFile

\* C3 as stated: once bind of a path-backed listener has returned, with
\* success or any failure, neither the temp nor the backup entry exists,
\* unless the recovery from a failed rename failed itself.
C3_NoRemnantEver ==
    (BindRan /\ IsPath(LastAddr) /\ ~last.recfail) => NoRemnant

\* C3, amended: the same for a listener without external descriptor once
\* bind got past the removal of the stale entries; a bind that fails before
\* (name too long) or in that removal leaves the entries it found, and a
\* bind on an external descriptor never looks at them.
C3_NoRemnantPastRemoval ==
    (BindOfPath /\ ~last.recfail
        /\ last.failed \notin {"names", "unlink_temp", "unlink_back"}) => NoRemnant

C3_Witness ==
    /\ BindOfPath /\ last.failed = "link" /\ last.preLive = OldSock
    /\ "link" \in last.calls /\ NoRemnant

\* C6 as stated: the descriptor slot of a listener holds a valid open
\* descriptor if and only if its state is LI_LISTEN or above.
C6_FdValidIffListen ==
    \A l \in Listeners : FdValid(l) <=> lis[l].state >= LI_LISTEN

\* no listener was given a descriptor, by its configuration or by the
\* previous process
NoOutsideFd == xfer = {} /\ \A l \in Listeners : ~lis[l].inh

\* C6, amended: in a process whose listeners got no descriptor from outside,
\* the descriptor slot of a listener holds a valid open descriptor if and
\* only if its state is LI_LISTEN or above.
C6_FdValidIffListenOwnFds ==
    NoOutsideFd => \A l \in Listeners : FdValid(l) <=> lis[l].state >= LI_LISTEN

C6_Witness ==
    /\ NoOutsideFd
    /\ BindOfPath /\ last.failed = "listen" /\ ~FdValid(last.li)
    /\ \E l \in Listeners : lis[l].state = LI_LISTEN /\ FdValid(l)

\* C7: bind returns the retryable bit exactly when bind() failed with
\* EADDRINUSE, the fatal bit for every other failing step, never both.
C7_RetryableOnlyAddrInUse ==
    last.op = "bind" =>
        /\ ("RETRYABLE" \in last.ret) <=> (last.failed = "bind_inuse")
        /\ (last.failed \notin {"none", "bind_inuse"}) => ("FATAL" \in last.ret)
        /\ ~("RETRYABLE" \in last.ret /\ "FATAL" \in last.ret)
        /\ (last.failed = "none") => (last.ret = ERR_NONE)

C7_Witness ==
    /\ BindOfPath /\ last.failed = "bind_inuse" /\ last.ret = ERR_RETRYABLE \cup ERR_ALERT
    /\ last.preLive = OldSock /\ fs[LastAddr].live = OldSock /\ NoRemnant

\* C8: bind on a listener in any state but LI_ASSIGNED returns ERR_NONE and
\* changes neither the listener, nor the descriptors, nor the file system,
\* nor the fd table.
C8_BindIsNoOpUnlessAssigned ==
    [][(last'.op = "bind" /\ lis[last'.li].state # LI_ASSIGNED)
          => /\ last'.ret = ERR_NONE
             /\ UNCHANGED <<lis, listeners, nb_listeners, fs, fds, fdtab, xfer>>]_vars

C8_Witness ==
    /\ last.op = "bind" /\ last.preState = LI_LISTEN /\ last.ret = ERR_NONE
    /\ lis[last.li].state = LI_LISTEN /\ FdValid(last.li)


\* ---------------------------------------------------- claims about connect
Connected == clast.op = "connect"

LastConn == conn[clast.c]

\* C4: connect returns SF_ERR_NONE only with an open descriptor registered
\* for the connection; on every other outcome every descriptor the call
\* created is closed, and none is created for a target that is neither a
\* proxy nor a server.
C4_FdOpenIffOk ==
    Connected =>
        /\ (clast.ret = "SF_ERR_NONE") =>
              /\ LastConn.fd \in clast.created
              /\ fds[LastConn.fd].open
              /\ fdtab[LastConn.fd].owner = [kind |-> "conn", id |-> clast.c]
              /\ "CO_FL_CTRL_READY" \in LastConn.flags
        /\ (clast.ret # "SF_ERR_NONE") => \A d \in clast.created : ~fds[d].open
        /\ (LastConn.target \notin {"OBJ_TYPE_PROXY", "OBJ_TYPE_SERVER"}) =>
              (clast.created = {} /\ clast.ret = "SF_ERR_INTERNAL")

C4_Witness ==
    /\ Connected /\ clast.ret = "SF_ERR_SRVCL" /\ clast.errno = "ECONNREFUSED"
    /\ clast.created # {} /\ \A d \in clast.created : ~fds[d].open

\* C5: on every failure path of connect the error flag and the error code
\* are both set; the flag is never set with the code left at CO_ER_NONE.
C5_ErrorFlagWithCode ==
    Connected =>
        /\ (clast.ret # "SF_ERR_NONE") =>
              ("CO_FL_ERROR" \in LastConn.flags /\ LastConn.err_code # "CO_ER_NONE")
        /\ ("CO_FL_ERROR" \in LastConn.flags) => (LastConn.err_code # "CO_ER_NONE")

\* the outcome and error code the claim gives for a failed socket()
SocketTable(errno) ==
    CASE errno = "ENFILE" -> <<"SF_ERR_RESOURCE", "CO_ER_SYS_FDLIM">>
      [] errno = "EMFILE" -> <<"SF_ERR_RESOURCE", "CO_ER_PROC_FDLIM">>
      [] errno \in {"ENOBUFS", "ENOMEM"} -> <<"SF_ERR_RESOURCE", "CO_ER_SYS_MEMLIM">>
      [] errno \in {"EAFNOSUPPORT", "EPROTONOSUPPORT"} -> <<"SF_ERR_RESOURCE", "CO_ER_NOPROTO">>
      [] OTHER -> <<"SF_ERR_RESOURCE", "CO_ER_SOCK_ERR">>

\* the outcome the claim gives for a failed connect(), and the error code
\* where it names one
ConnectOutcome(errno) ==
    CASE errno \in {"EAGAIN", "EADDRNOTAVAIL", "EADDRINUSE"} -> "SF_ERR_RESOURCE"
      [] errno = "ETIMEDOUT" -> "SF_ERR_SRVTO"
      [] OTHER -> "SF_ERR_SRVCL"

\* C9: the outcome and error code of a failed connect are a fixed function
\* of the failing step and its errno.
C9_ErrnoClassification ==
    Connected =>
        /\ (clast.failed = "socket") =>
              <<clast.ret, LastConn.err_code>> = SocketTable(clast.errno)
        /\ (clast.failed = "connect") =>
              /\ clast.errno \notin {"EINPROGRESS", "EALREADY", "EISCONN"}
              /\ clast.ret = ConnectOutcome(clast.errno)
              /\ (clast.errno \in {"EAGAIN", "EADDRNOTAVAIL"}) =>
                    LastConn.err_code = "CO_ER_FREE_PORTS"
              /\ (clast.errno = "EADDRINUSE") => LastConn.err_code = "CO_ER_ADDR_INUSE"
        /\ (clast.errno \in {"EINPROGRESS", "EALREADY", "EISCONN"}) =>
              clast.failed \in {"none", "xprt"}

C9_Witness ==
    /\ Connected /\ clast.failed = "socket" /\ clast.errno = "EMFILE"
    /\ clast.ret = "SF_ERR_RESOURCE" /\ LastConn.err_code = "CO_ER_PROC_FDLIM"

Logged ==
    \E i \in 1..Len(clast.logs) :
        clast.logs[i].level \in {"LOG_EMERG", "LOG_ERR"} /\ clast.logs[i].be = "be"

\* C10: connect emits a log or an alert exactly on SF_ERR_RESOURCE: every
\* such return has logged at emergency or error level naming the backend,
\* and SF_ERR_PRXCOND emits no log and no alert.
C10_LogsOnlyOnResource ==
    Connected =>
        /\ (clast.ret = "SF_ERR_RESOURCE") => Logged
        /\ (clast.ret = "SF_ERR_PRXCOND") => (clast.logs = <<>> /\ clast.alerts = 0)
        /\ (clast.logs # <<>> \/ clast.alerts > 0) => clast.ret = "SF_ERR_RESOURCE"

ListedOnce ==
    /\ nb_listeners = Len(listeners)
    /\ \A i, j \in 1..Len(listeners) : listeners[i] = listeners[j] => i = j

\* C12: attach on a listener that is not in LI_INIT changes neither the
\* listener, nor the list, nor the count; attach on one in LI_INIT puts it in
\* LI_ASSIGNED, appends it at the tail of the list and adds one to the count;
\* so the count is the length of the list and no listener is in it twice.
C12_AttachOnce ==
    /\ []ListedOnce
    /\ [][(last'.op = "attach") =>
             IF lis[last'.li].state # LI_INIT
             THEN UNCHANGED <<lis, listeners, nb_listeners>>
             ELSE /\ lis' = [lis EXCEPT ![last'.li].state = LI_ASSIGNED]
                  /\ listeners' = Append(listeners, last'.li)
                  /\ nb_listeners' = nb_listeners + 1]_vars

C12_Witness ==
    /\ last.op = "attach" /\ last.li = 1
    /\ listeners = <<2, 1>> /\ nb_listeners = 2
    /\ lis[1].state = LI_ASSIGNED /\ lis[2].state = LI_LISTEN

\* ----------------------------------------------------- claims about unbind
\* the descriptor the listener held is closed and no longer registered
Released(l) ==
    lis[l].fd \in Fds =>
        ~fds'[lis[l].fd].open /\ fdtab'[lis[l].fd] = NoEntry

\* C13: unbind and unbind_all return ERR_NONE; unbind on a listener above
\* LI_ASSIGNED releases its descriptor and puts it back in LI_ASSIGNED,
\* unbind on one at or below LI_ASSIGNED changes nothing; after unbind_all
\* every listener of the list is at or below LI_ASSIGNED, and the list and
\* the count are as before.
C13_UnbindAlwaysSucceeds ==
    [][/\ (last'.op = "unbind") =>
             /\ last'.ret = ERR_NONE
             /\ UNCHANGED <<listeners, nb_listeners, fs>>
             /\ IF lis[last'.li].state > LI_ASSIGNED
                THEN /\ lis'[last'.li].state = LI_ASSIGNED
                     /\ Released(last'.li)
                     /\ ~(lis'[last'.li].fd \in Fds /\ fds'[lis'[last'.li].fd].open)
                ELSE UNCHANGED <<lis, fds, fdtab>>
       /\ (last'.op = "unbind_all") =>
             /\ last'.ret = ERR_NONE
             /\ UNCHANGED <<listeners, nb_listeners, fs>>
             /\ \A i \in 1..Len(listeners) :
                   /\ lis'[listeners[i]].state <= LI_ASSIGNED
                   /\ lis[listeners[i]].state > LI_ASSIGNED => Released(listeners[i])
                   /\ lis[listeners[i]].state <= LI_ASSIGNED =>
                         lis'[listeners[i]] = lis[listeners[i]]]_vars

C13_Witness ==
    /\ last.op = "unbind_all" /\ last.ret = ERR_NONE
    /\ Len(listeners) = 2 /\ last.unbound = {1, 2}
    /\ \A l \in {1, 2} : lis[l].state = LI_ASSIGNED /\ lis[l].fd = -1

\* --------------------------------------------------- claims about bind_all
Swept == last.op = "bind_all"

\* the bits accumulated over the first n listeners of the sweep
RECURSIVE ErrUpTo(_)
ErrUpTo(n) == IF n = 0 THEN ERR_NONE ELSE ErrUpTo(n - 1) \cup last.sweep[n].err

\* C14: bind_all calls bind on the listeners of the list in list order,
\* returns the union of the bits of the listeners it went through, and stops
\* before the next listener only when the bits accumulated so far hold
\* ERR_ABORT; a listener that fails without ERR_ABORT keeps no later one
\* from being attempted.
C14_SweepInOrder ==
    Swept =>
        /\ Len(last.sweep) <= Len(listeners)
        /\ \A i \in 1..Len(last.sweep) : last.sweep[i].li = listeners[i]
        /\ last.ret = ErrUpTo(Len(last.sweep))
        /\ Len(last.sweep) < Len(listeners) =>
              (ErrUpTo(Len(last.sweep)) \cap ERR_ABORT) # {}
        /\ \A i \in 1..Len(last.sweep) :
              (last.sweep[i].err \cap ERR_ABORT) = {} => i = Len(listeners) \/ i < Len(last.sweep)

C14_Witness ==
    /\ Swept /\ Len(listeners) = 2 /\ Len(last.sweep) = 2
    /\ "FATAL" \in last.sweep[1].err /\ last.sweep[2].err = ERR_NONE
    /\ lis[listeners[1]].state = LI_ASSIGNED /\ lis[listeners[2]].state = LI_LISTEN
    /\ last.ret = ERR_FATAL \cup ERR_ALERT

\* C20: when bind_all returns with the fatal or the retryable bit set and was
\* given a buffer of non-zero length, the buffer holds a non-empty message,
\* that of a listener whose bind failed; a later listener that binds
\* successfully does not erase it.
C20_SweepKeepsFailureMessage ==
    (Swept /\ (last.ret \cap (ERR_FATAL \cup ERR_RETRYABLE)) # {} /\ last.errlen # 0) =>
        /\ last.errmsg.msg \notin {NoMsg.msg, Garbage.msg}
        /\ \E i \in 1..Len(last.sweep) :
              (last.sweep[i].err \cap (ERR_FATAL \cup ERR_RETRYABLE)) # {}

\* ------------------------------------------- claims about connect's hints
AllHints == {"want_send", "cant_send", "cant_recv"}

WaitL4 == "CO_FL_WAIT_L4_CONN" \in LastConn.flags

\* C15: when connect returns SF_ERR_NONE the hints want-send, cannot-send and
\* cannot-receive are set exactly when CO_FL_WAIT_L4_CONN is set on return,
\* which is exactly when connect() failed with EINPROGRESS or EALREADY; when
\* connect() succeeded at once or failed with EISCONN the flag is clear, the
\* descriptor is registered and no hint is set.
C15_HintsIffWaitL4 ==
    (Connected /\ clast.ret = "SF_ERR_NONE") =>
        /\ LastConn.fd \in Fds
        /\ fdtab[LastConn.fd].hints \in {{}, AllHints}
        /\ (fdtab[LastConn.fd].hints = AllHints) <=> WaitL4
        /\ WaitL4 <=> (clast.errno \in {"EINPROGRESS", "EALREADY"})
        /\ (clast.errno \in {"none", "EISCONN"}) =>
              /\ ~WaitL4
              /\ fdtab[LastConn.fd].owner = [kind |-> "conn", id |-> clast.c]
              /\ fdtab[LastConn.fd].hints = {}

C15_Witness ==
    /\ Connected /\ clast.ret = "SF_ERR_NONE" /\ clast.errno = "EINPROGRESS"
    /\ WaitL4 /\ fdtab[LastConn.fd].hints = AllHints
    /\ fdtab[LastConn.fd].owner = [kind |-> "conn", id |-> clast.c]

\* ------------------------------------ claims about the system calls of bind
FsCalls == {"link", "unlink", "rename", "chown", "chmod"}

\* what both statements of C16 say of the file system and of socket(), bind()
NoFsUnlessOwnPath ==
    /\ ~(IsPath(lis[last'.li].addr) /\ ~last'.ext) =>
          (last'.calls \cap FsCalls = {} /\ fs' = fs)
    /\ last'.ext => last'.calls \cap {"socket", "bind"} = {}

C17_UnwindKeepsExternalFd ==
    [][(last'.op = "bind" /\ last'.ret \cap (ERR_FATAL \cup ERR_RETRYABLE) # {}) =>
          /\ lis'[last'.li].state = LI_ASSIGNED
          /\ \A d \in Fds : fds[d].open => fds'[d].open]_vars

\* ------------------------------------ claims about bind, call by call
\* a process listens on the socket: the previous process on the one it left
\* at the live path, this one on those it has a listening descriptor for
Listening(s) ==
    \/ s = OldSock
    \/ \E d \in Fds : fds[d].open /\ fds[d].sock = s /\ fds[d].listening

\* bind is in progress in process p on a path, on a socket of its own
BindingPath(p) ==
    /\ run[p].phase = "busy"
    /\ run[p].ctx.pc # "entry" /\ run[p].preState = LI_ASSIGNED
    /\ IsPath(run[p].ctx.addr) /\ ~run[p].ctx.ext

\* C18: bind of a path-backed listener without external descriptor renames
\* the temp entry onto the live path only after bind(), the change of owner
\* and mode and listen() have succeeded; so at every step of a bind whose
\* rename succeeds, a live path that held a listening socket when bind
\* started is present and names a listening socket, the previous one before
\* the rename and the new one after it.
C18_LivePathAlwaysListening ==
    BindingPath(1) =>
        LET c == run[1].ctx
            renamed == "rename" \in c.calls /\ c.failed = "none"
        IN  /\ ("rename" \in c.calls) =>
                  /\ {"bind", "listen"} \subseteq c.calls
                  /\ c.ux.owner => "chown" \in c.calls
                  /\ c.ux.mode => "chmod" \in c.calls
                  /\ "close" \notin c.calls =>
                        /\ fds[c.fd].open /\ fds[c.fd].listening
                        /\ fds[c.fd].sock = c.sock /\ fds[c.fd].bound # "none"
            /\ (c.failed = "none" /\ run[1].preLive # NoFile /\ Listening(run[1].preLive)) =>
                  /\ fs[c.addr].live # NoFile
                  /\ Listening(fs[c.addr].live)
                  /\ fs[c.addr].live = IF renamed THEN c.sock ELSE run[1].preLive

C18_Witness ==
    /\ BindingPath(1) /\ run[1].ctx.pc = "cleanup" /\ run[1].ctx.failed = "none"
    /\ run[1].preLive = OldSock
    /\ fs[run[1].ctx.addr].live = run[1].ctx.sock
    /\ fs[run[1].ctx.addr].bak = OldSock
    /\ Listening(run[1].ctx.sock)


\* ------------------------------------------- claims about two processes
\* the bind of process p has returned, without error
Succeeded(p) == run[p].phase = "done" /\ run[p].ctx.failed = "none"

\* process p listens on socket s
ListensOn(p, s) ==
    LET d == run[p].ctx.fd
    IN  d \in Fds /\ fds[d].open /\ fds[d].listening /\ fds[d].sock = s

\* the socket the path held before either process touched it
Previous == IF OldSock \in {run[p].preLive : p \in Procs} THEN OldSock ELSE NoFile

\* the temp and backup entries under the names of process p
NamesOf(p) == <<FsView(p)[RacePath].tmp, FsView(p)[RacePath].bak>>

\* a step of one process leaves the entries under the other's names alone
NamesApart ==
    \A p, q \in Procs :
        (p # q /\ run[p].phase = "busy" /\ run'[p] # run[p]) => NamesOf(q)' = NamesOf(q)

BothReturned == \A p \in Procs : run[p].phase = "done"

RaceSettled ==
    BothReturned =>
        /\ IF \E p \in Procs : Succeeded(p)
           THEN \E p \in Procs : Succeeded(p) /\ ListensOn(p, fs[RacePath].live)
           ELSE fs[RacePath].live = Previous
        /\ \A p \in Procs : NamesOf(p) = <<NoFile, NoFile>>

\* C19: two processes with distinct pids bind the same path concurrently,
\* under every interleaving and every failure: neither removes or renames
\* the other's temp or backup entry, and once both have returned the live
\* path names a listening socket of a process whose bind succeeded (the
\* previous socket if both failed) and no temp or backup entry is left.
C19_RaceLeavesWinner == [][NamesApart]_vars /\ []RaceSettled

====
